---------------------------- MODULE Spec2Model ----------------------------
(***************************************************************************)
(* Model of the chat session view (src/src/components/chat-window.jsx) and *)
(* of the App shell that renders it (src/src/App.jsx).                     *)
(*                                                                         *)
(* The component is a single-threaded, event-driven state machine: every   *)
(* action below is one event handler, one effect run, or the continuation  *)
(* of an async function after one of its awaits (a microtask), each of     *)
(* which runs to completion before the next event is taken.                *)
(*                                                                         *)
(* Four specifications project the program on state that the code keeps    *)
(* independent:                                                            *)
(*   Spec          history loading and sending (effect, send, chips)       *)
(*   UploadSpec    beginUpload, progress callbacks, removal timers         *)
(*   TimelineSpec  the `sections` memo (grouping of messages by day)       *)
(*   ShellSpec     the route, the selection and the active chat of the App *)
(***************************************************************************)
EXTENDS Integers, Sequences, FiniteSets, Bags, TLC

VARIABLES
  \* ---- session view: props, state and refs (chat-window.jsx 200-248)
  chatId,             \* props.chat.id of the latest render
  inputValue,         \* useState: text of the input field (sequence of characters)
  isThinking,         \* useState
  isLoadingHistory,   \* useState
  loadError,          \* useState: Null or a message
  sendError,          \* useState: Null or a message
  fetchedHistoryRef,  \* useRef(new Set()): chat ids whose history fetch was started
  autoAskedByThread,  \* useRef(new Set()): insight ids whose question was auto-sent
  store,              \* data context: chat id -> summary of its message list
  loads,              \* runs of the history-load effect whose async body is suspended
  sends,              \* send() calls suspended at `await sendMessage`
  sendCalls,          \* number of sendMessage calls so far
  setMessageCalls,    \* number of setMessage calls so far
  \* ---- observation of the session view (not read by any action guard)
  loadCalls,          \* chat id -> number of loadMessages calls
  loadFails,          \* chat ids for which a loadMessages call failed
  autoSends,          \* chat id -> number of automatic sends of the insight question
  pendingDraft,       \* the text of the input field when the latest send() took
                      \* its content from it, until the user types again
  blankSent,          \* TRUE once send() was called with blank content
  \* ---- uploads (chat-window.jsx 220-244, 373-415)
  uploads,            \* useState: the visible upload tasks, in order
  removalTimersRef,   \* useRef(new Map()): the task ids that are keys of the map
  timeouts,           \* the pending setTimeout callbacks: a bag of task ids
  mounted,            \* the session view is mounted
  batches,            \* the beginUpload calls so far: their items and loop state
  nowMs,              \* the latest value Date.now() returned
  \* ---- timeline (chat-window.jsx 222, 255-263, 354-369)
  messages,           \* the memo selectMessages(chat.id): the list being rendered
  now,                \* useState: the reference time of the header labels
  wall,               \* the time of day a `new Date()` returns
  sections,           \* the memo computed from messages and now
  \* ---- App shell (App.jsx 28-98, 140-145, 227-268, 296-312)
  threadId,           \* the route parameter id: Null on /home
  chats,              \* data context: the ids of the chats
  insights,           \* data context: the ids of the insights
  lastNonNullRef,     \* useRef(null): Null or the selection the effect stored last
  activeChat,         \* activeChat of the latest render: Null or a selection
  \* ---- observation of the App shell (not read by any action guard)
  lastResolved        \* the selection of the latest render whose route resolved,
                      \* Null after a reset by Back or the logo

sessionVars == <<chatId, inputValue, isThinking, isLoadingHistory, loadError,
                 sendError, fetchedHistoryRef, autoAskedByThread, store, loads,
                 sends, sendCalls, setMessageCalls, loadCalls, loadFails, autoSends,
                 pendingDraft, blankSent>>

uploadVars == <<uploads, removalTimersRef, timeouts, mounted, batches, nowMs>>

timelineVars == <<messages, now, wall, sections>>

shellVars == <<threadId, chats, insights, lastNonNullRef, activeChat, lastResolved>>

vars == <<sessionVars, uploadVars, timelineVars, shellVars>>

----------------------------------------------------------------------------
(* Bounds of the model *)

MaxLoads == 2        \* loadMessages calls in one behaviour
MaxSends == 2        \* sendMessage calls in one behaviour
MaxFiles == 3        \* files submitted for upload in one behaviour
MaxLen == 3          \* messages of the rendered list

----------------------------------------------------------------------------
(* Values *)

Null == "null"

\* Strings are sequences of one-character strings; " " is the whitespace.
Blank == <<" ">>
Texts == {<< >>, Blank, <<" ", "a">>}

\* The chats the App shell passes as props.chat: a regular chat and an
\* insight.  i1 has no userQuestion and falls back to its title; an insight
\* i2 would have a whitespace-only userQuestion (truthy, so its title is not
\* consulted and its question is blank).
Chats == {"c1", "i1"}

chatType(id) == IF id = "c1" THEN "regular" ELSE "insight"

userQuestion(id) == IF id = "i2" THEN Blank ELSE << >>

title(id) == IF id = "i1" THEN <<"a", " ">> ELSE <<"t">>

isInsight(id) == chatType(id) = "insight"

\* String.prototype.trim
RECURSIVE TrimLeft(_)
TrimLeft(s) ==
  IF s = << >> THEN << >>
  ELSE IF Head(s) = " " THEN TrimLeft(Tail(s)) ELSE s

RECURSIVE TrimRight(_)
TrimRight(s) ==
  IF s = << >> THEN << >>
  ELSE IF s[Len(s)] = " " THEN TrimRight(SubSeq(s, 1, Len(s) - 1)) ELSE s

Trim(s) == TrimRight(TrimLeft(s))

\* a || b on strings: the empty string is falsy
OrElse(a, b) == IF a # << >> THEN a ELSE b

\* q of the auto-ask: (insightData.userQuestion || title || "").trim()
AutoQuestion(id) == Trim(OrElse(OrElse(userQuestion(id), title(id)), << >>))

\* pendingDraft when no send took its content from the input field, or the
\* user typed since
NoDraft == [sid |-> 0, text |-> << >>]

\* An argument of send(): a string, or anything else (undefined, an event)
StringArg(s) == [isString |-> TRUE, val |-> s]
NoArg == [isString |-> FALSE, val |-> << >>]


\* Labels of the suggestion chips of a new chat (CHAT_SUGGESTIONS of utils)
CHAT_SUGGESTIONS == {<<"a">>}

\* The message list of a chat, as far as the view reads it: "none" (empty),
\* "user" (user messages only), "ai" (an AI message with follow-ups is there)
Summaries == {"none", "user", "ai"}

\* Histories loadMessages can put in the store: none, or earlier exchanges
Histories == {"none", "ai"}

LOAD_ERROR == "Could not load chat history."
SEND_ERROR == "Failed to send. Please try again."

----------------------------------------------------------------------------
(* The data context, as the session view uses it *)

\* selectMessages(chatId)
selectMessages(st, id) == st[id]

\* messages.length === 0
IsEmptyList(m) == m = "none"

\* the last AI message carries follow-up chips
HasFollowUps(m) == m = "ai"

\* setMessage(chatId, content): optimistic append of a user message
setMessage(st, id) == [st EXCEPT ![id] = IF @ = "none" THEN "user" ELSE @]

\* loadMessages(chatId, chatType) resolved: the store holds the fetched history
loadMessagesDone(st, id, hist) == [st EXCEPT ![id] = hist]

\* sendMessage(chatId, content, chatType) resolved: the reply is in the store
sendMessageDone(st, id) == [st EXCEPT ![id] = "ai"]

----------------------------------------------------------------------------
(* send (chat-window.jsx 318-336) *)

\* has() keyed by the chat object instead of its id: the App shell builds a
\* fresh object for every selection, so the key is never found
HasByObject(ref, id) == FALSE

\* Set.prototype.has(chat.id) on one of the two guard refs
Has(ref, id) == id \in ref

\* Content with the trim forgotten
ContentUntrimmed(arg) == IF arg.isString THEN arg.val ELSE inputValue

\* const content = (typeof text === "string" ? text : inputValue).trim()
Content(arg) == Trim(IF arg.isString THEN arg.val ELSE inputValue)

\* if (!content) return
IsEmptySubmission(content) == content = << >>

\* ClearsInput without the typeof test: every send clears the input field
ClearsInputAlways(arg) == TRUE

\* if (typeof text !== "string") setInputValue("")
ClearsInput(arg) == ~arg.isString

SendVars == <<inputValue, isThinking, sendError, store, sends, sendCalls,
              setMessageCalls, pendingDraft>>

\* send(arg), run on the store st, up to its `await sendMessage(...)`
send(arg, st) ==
  IF IsEmptySubmission(Content(arg))
  THEN /\ store' = st
       /\ UNCHANGED <<inputValue, isThinking, sendError, sends, sendCalls,
                      setMessageCalls, pendingDraft>>
  ELSE /\ sendCalls < MaxSends
       /\ sendError' = Null
       /\ isThinking' = TRUE
       /\ store' = setMessage(st, chatId)
       /\ setMessageCalls' = setMessageCalls + 1
       /\ inputValue' = IF ClearsInput(arg) THEN << >> ELSE inputValue
       /\ sendCalls' = sendCalls + 1
       /\ sends' = sends \cup {[sid |-> sendCalls + 1, chat |-> chatId]}
       /\ pendingDraft' = IF arg.isString THEN pendingDraft
                          ELSE [sid |-> sendCalls + 1, text |-> inputValue]

\* The text a call send(arg) submits is blank
IsBlank(arg) == Trim(IF arg.isString THEN arg.val ELSE inputValue) = << >>

HistoryVars == <<chatId, isLoadingHistory, loadError, fetchedHistoryRef,
                 autoAskedByThread, loads, loadCalls, loadFails,
                 autoSends>>

\* onKeyDown: Enter without Shift calls send()
PressEnter ==
  /\ UNCHANGED <<uploadVars, timelineVars, shellVars>>
  /\ send(NoArg, store)
  /\ blankSent' = (blankSent \/ IsBlank(NoArg))
  /\ UNCHANGED HistoryVars

\* The send IconButton: onClick={() => send()}, disabled while the input is
\* blank or a send is outstanding
ClickSend ==
  /\ UNCHANGED <<uploadVars, timelineVars, shellVars>>
  /\ ~(Trim(inputValue) = << >> \/ isThinking)
  /\ send(NoArg, store)
  /\ blankSent' = (blankSent \/ IsBlank(NoArg))
  /\ UNCHANGED HistoryVars

\* A suggestion chip of a new chat: shown when !isLoadingHistory && isNewChat
PickSuggestion(label) ==
  /\ UNCHANGED <<uploadVars, timelineVars, shellVars>>
  /\ ~isLoadingHistory
  /\ IsEmptyList(selectMessages(store, chatId)) /\ ~isInsight(chatId)
  /\ send(StringArg(label), store)
  /\ blankSent' = (blankSent \/ IsBlank(StringArg(label)))
  /\ UNCHANGED HistoryVars

\* A follow-up chip under the last AI message
PickFollowUp(label) ==
  /\ UNCHANGED <<uploadVars, timelineVars, shellVars>>
  /\ HasFollowUps(selectMessages(store, chatId))
  /\ send(StringArg(label), store)
  /\ blankSent' = (blankSent \/ IsBlank(StringArg(label)))
  /\ UNCHANGED HistoryVars

\* useImperativeHandle: triggerSend: (text) => send(text)
triggerSend(arg) ==
  /\ UNCHANGED <<uploadVars, timelineVars, shellVars>>
  /\ send(arg, store)
  /\ blankSent' = (blankSent \/ IsBlank(arg))
  /\ UNCHANGED HistoryVars

\* The async body of a history-load effect that awaits the auto-sent question
\* resumes when that send settles, and runs its `finally`
ResumeEffect(s) ==
  IF \E l \in loads : l.awaiting = s.sid
  THEN /\ loads' = {l \in loads : l.awaiting # s.sid}
       /\ isLoadingHistory' = FALSE
  ELSE UNCHANGED <<loads, isLoadingHistory>>

\* sendMessage resolved: send's `finally`
SendResolve(s) ==
  /\ UNCHANGED <<uploadVars, timelineVars, shellVars>>
  /\ s \in sends
  /\ sends' = sends \ {s}
  /\ store' = sendMessageDone(store, s.chat)
  /\ isThinking' = FALSE
  /\ ResumeEffect(s)
  /\ UNCHANGED blankSent
  /\ UNCHANGED <<chatId, inputValue, sendError, loadError, pendingDraft, fetchedHistoryRef,
                 autoAskedByThread, sendCalls, setMessageCalls, loadCalls,
                 loadFails, autoSends>>

\* sendMessage rejected: send's `catch`, then its `finally`
SendReject(s) ==
  /\ UNCHANGED <<uploadVars, timelineVars, shellVars>>
  /\ s \in sends
  /\ sends' = sends \ {s}
  /\ sendError' = SEND_ERROR
  /\ isThinking' = FALSE
  /\ ResumeEffect(s)
  /\ UNCHANGED blankSent
  /\ UNCHANGED <<chatId, inputValue, store, loadError, pendingDraft, fetchedHistoryRef,
                 autoAskedByThread, sendCalls, setMessageCalls, loadCalls,
                 loadFails, autoSends>>

\* The input field: onChange={(e) => setInputValue(e.target.value)}
Type(t) ==
  /\ UNCHANGED <<uploadVars, timelineVars, shellVars>>
  /\ inputValue' = t
  /\ pendingDraft' = NoDraft
  /\ UNCHANGED blankSent
  /\ UNCHANGED <<isThinking, sendError, store, sends, sendCalls, setMessageCalls>>
  /\ UNCHANGED HistoryVars

\* The send error Alert: onClose={() => setSendError(null)}
DismissSendError ==
  /\ UNCHANGED <<uploadVars, timelineVars, shellVars>>
  /\ sendError # Null
  /\ sendError' = Null
  /\ UNCHANGED blankSent
  /\ UNCHANGED <<inputValue, isThinking, store, sends, sendCalls,
                 setMessageCalls, pendingDraft>>
  /\ UNCHANGED HistoryVars

\* The load error Alert: onClose={() => setLoadError(null)}
DismissLoadError ==
  /\ UNCHANGED <<uploadVars, timelineVars, shellVars>>
  /\ loadError # Null
  /\ loadError' = Null
  /\ UNCHANGED blankSent
  /\ UNCHANGED SendVars
  /\ UNCHANGED <<chatId, isLoadingHistory, fetchedHistoryRef, autoAskedByThread,
                 loads, loadCalls, loadFails, autoSends>>

----------------------------------------------------------------------------
(* The history-load effect (chat-window.jsx 276-315) *)

\* The effect without its fetched-history guard
HistoryNeverFetched(id) == FALSE

\* if (fetchedHistoryRef.current.has(chat.id)) return
HistoryFetched(id) == Has(fetchedHistoryRef, id)

\* The cleanup of the latest effect run: cancelled = true in its closure.
\* A suspended effect body is not cancelled exactly when it is the latest run.
Cleanup(ls) == {[l EXCEPT !.cancelled = TRUE] : l \in ls}

TotalLoads == loadCalls["c1"] + loadCalls["i1"]

\* The effect body for chat id, up to `await loadMessages(...)`
RunEffect(id) ==
  IF HistoryFetched(id)
  THEN /\ loads' = Cleanup(loads)
       /\ UNCHANGED <<fetchedHistoryRef, isLoadingHistory, loadError, loadCalls>>
  ELSE /\ TotalLoads < MaxLoads
       /\ fetchedHistoryRef' = fetchedHistoryRef \cup {id}
       /\ isLoadingHistory' = TRUE
       /\ loadError' = Null
       /\ loadCalls' = [loadCalls EXCEPT ![id] = @ + 1]
       /\ loads' = Cleanup(loads) \cup
            {[id |-> id, cancelled |-> FALSE, awaiting |-> 0]}

\* props.chat changes to another chat (same ChatWindow instance): the effect
\* of the previous chat is cleaned up and the effect runs for the new one
SwitchChat(id) ==
  /\ UNCHANGED <<uploadVars, timelineVars, shellVars>>
  /\ id # chatId
  /\ chatId' = id
  /\ RunEffect(id)
  /\ UNCHANGED blankSent
  /\ UNCHANGED SendVars
  /\ UNCHANGED <<autoAskedByThread, loadFails, autoSends>>

\* The effect runs again for the same chat id: StrictMode's mount, cleanup,
\* mount, or a dependency (loadMessages, selectMessages) changing identity
RerunEffect ==
  /\ UNCHANGED <<uploadVars, timelineVars, shellVars>>
  /\ RunEffect(chatId)
  /\ UNCHANGED blankSent
  /\ UNCHANGED SendVars
  /\ UNCHANGED <<chatId, autoAskedByThread, loadFails, autoSends>>

\* if (isInsight && !autoAskedByThread.current.has(chat.id)) ... if (isEmpty && q)
ShouldAutoAsk(l, st) ==
  /\ isInsight(l.id)
  /\ ~Has(autoAskedByThread, l.id)
  /\ IsEmptyList(selectMessages(st, l.id))
  /\ AutoQuestion(l.id) # << >>

\* loadMessages of effect run l resolved with history hist
LoadResolve(l, hist) ==
  /\ UNCHANGED <<uploadVars, timelineVars, shellVars>>
  /\ l \in loads /\ l.awaiting = 0
  /\ LET st == loadMessagesDone(store, l.id, hist) IN
        IF l.cancelled
        THEN \* if (cancelled) return; then `finally`
             /\ store' = st
             /\ loads' = loads \ {l}
             /\ isLoadingHistory' = FALSE
             /\ UNCHANGED blankSent
             /\ UNCHANGED <<autoAskedByThread, autoSends, inputValue, isThinking,
                            sendError, sends, sendCalls, setMessageCalls,
                            pendingDraft>>
        ELSE IF ShouldAutoAsk(l, st)
        THEN \* await sendRef.current?.(q): the effect stays suspended
             /\ autoAskedByThread' = autoAskedByThread \cup {l.id}
             /\ autoSends' = [autoSends EXCEPT ![l.id] = @ + 1]
             /\ send(StringArg(AutoQuestion(l.id)), st)
             /\ loads' = (loads \ {l}) \cup {[l EXCEPT !.awaiting = sendCalls + 1]}
             /\ blankSent' = (blankSent \/ IsBlank(StringArg(AutoQuestion(l.id))))
             /\ UNCHANGED isLoadingHistory
        ELSE /\ store' = st
             /\ loads' = loads \ {l}
             /\ isLoadingHistory' = FALSE
             /\ UNCHANGED blankSent
             /\ UNCHANGED <<autoAskedByThread, autoSends, inputValue, isThinking,
                            sendError, sends, sendCalls, setMessageCalls,
                            pendingDraft>>
  /\ UNCHANGED <<chatId, loadError, fetchedHistoryRef, loadCalls, loadFails>>

\* A catch block that leaves the guard in place
KeepGuard(ref, id) == ref

\* catch: fetchedHistoryRef.current.delete(chat.id)
ReleaseGuard(ref, id) == ref \ {id}

\* loadMessages of effect run l rejected: `catch`, then `finally`
LoadReject(l) ==
  /\ UNCHANGED <<uploadVars, timelineVars, shellVars>>
  /\ l \in loads /\ l.awaiting = 0
  /\ loads' = loads \ {l}
  /\ fetchedHistoryRef' = ReleaseGuard(fetchedHistoryRef, l.id)
  /\ loadError' = IF l.cancelled THEN loadError ELSE LOAD_ERROR
  /\ isLoadingHistory' = FALSE
  /\ loadFails' = loadFails \cup {l.id}
  /\ UNCHANGED blankSent
  /\ UNCHANGED SendVars
  /\ UNCHANGED <<chatId, autoAskedByThread, loadCalls, autoSends>>

----------------------------------------------------------------------------
(* The session view after its first render and effect run, for any chat *)

SessionInit ==
  /\ chatId \in Chats
  /\ inputValue = << >>
  /\ isThinking = FALSE
  /\ isLoadingHistory = TRUE
  /\ loadError = Null
  /\ sendError = Null
  /\ fetchedHistoryRef = {chatId}
  /\ autoAskedByThread = {}
  /\ store = [c \in Chats |-> "none"]
  /\ loads = {[id |-> chatId, cancelled |-> FALSE, awaiting |-> 0]}
  /\ sends = {}
  /\ sendCalls = 0
  /\ setMessageCalls = 0
  /\ loadCalls = [c \in Chats |-> IF c = chatId THEN 1 ELSE 0]
  /\ loadFails = {}
  /\ autoSends = [c \in Chats |-> 0]
  /\ pendingDraft = NoDraft
  /\ blankSent = FALSE

SessionNext ==
  \/ \E id \in Chats : SwitchChat(id)
  \/ RerunEffect
  \/ \E l \in loads, hist \in Histories : LoadResolve(l, hist)
  \/ \E l \in loads : LoadReject(l)
  \/ \E t \in Texts : Type(t)
  \/ PressEnter
  \/ ClickSend
  \/ \E label \in CHAT_SUGGESTIONS : PickSuggestion(label)
  \/ \E label \in Texts : PickFollowUp(label)
  \/ \E arg \in {NoArg} \cup {StringArg(t) : t \in Texts} : triggerSend(arg)
  \/ \E s \in sends : SendResolve(s)
  \/ \E s \in sends : SendReject(s)
  \/ DismissSendError
  \/ DismissLoadError

----------------------------------------------------------------------------
(* Uploads (chat-window.jsx 226-236, 373-415) *)

\* File names of the picked or dropped files
Names == {<<"a">>, <<"b">>}

\* Values of Date.now(): two calls fall in the same millisecond or not
Millis == {0, 1}

\* Progress percentages uploadDocument reports
Pcts == {50}

UPLOAD_ERROR == "Upload failed"

DigitChars == <<"0", "1", "2", "3", "4", "5", "6", "7", "8", "9">>

\* String(n) of a non-negative integer
RECURSIVE Digits(_)
Digits(n) ==
  IF n < 10 THEN <<DigitChars[n + 1]>>
  ELSE Digits(n \div 10) \o <<DigitChars[(n % 10) + 1]>>

\* The characters of a chat id
IdChars(id) == IF id = "c1" THEN <<"c", "1">> ELSE <<"i", "1">>

\* id: `${chat.id}-${Date.now()}-${f.name}`
TaskId(chat, ms, name) == IdChars(chat) \o <<"-">> \o Digits(ms) \o <<"-">> \o name

\* Array.from(files).map(...): the task of file k of batch b, named files[k];
\* the File object is identified by its batch and position
NewItems(files, b, chat, ms) ==
  [k \in 1..Len(files) |->
     [id |-> TaskId(chat, ms, files[k]), name |-> files[k], progress |-> 0,
      done |-> FALSE, error |-> Null, file |-> <<b, k>>]]

\* u.map((x) => (x.id === id ? f(x) : x))
MapTasks(u, id, field, val) ==
  [k \in 1..Len(u) |->
     IF u[k].id = id
     THEN IF field = "progress" THEN [u[k] EXCEPT !.progress = val]
          ELSE IF field = "done" THEN [u[k] EXCEPT !.done = TRUE, !.progress = 100]
          ELSE [u[k] EXCEPT !.error = val]
     ELSE u[k]]

\* u.filter((x) => x.id !== id)
RECURSIVE FilterTasks(_, _)
FilterTasks(u, id) ==
  IF u = << >> THEN << >>
  ELSE IF Head(u).id # id THEN <<Head(u)>> \o FilterTasks(Tail(u), id)
  ELSE FilterTasks(Tail(u), id)

\* The map of removal timers and the pending timeouts
Timers == [map |-> removalTimersRef, timeouts |-> timeouts]

\* A scheduleRemoval without its guard
scheduleAgain(ts, id) ==
  [map |-> ts.map \cup {id}, timeouts |-> ts.timeouts (+) SetToBag({id})]

\* scheduleRemoval(id): if the map has the id, nothing; else setTimeout and
\* removalTimersRef.current.set(id, t)
scheduleRemoval(ts, id) ==
  IF id \in ts.map THEN ts
  ELSE [map |-> ts.map \cup {id}, timeouts |-> ts.timeouts (+) SetToBag({id})]

\* setUploads(f): a state update of an unmounted component does nothing
setUploads(u) == IF mounted THEN u ELSE uploads

Terminal == {"done", "error"}

\* A fan-out that starts every queued upload at once
AdvanceAll(st) ==
  [k \in 1..Len(st) |-> IF st[k] = "queued" THEN "inflight" ELSE st[k]]

\* for (const it of items) { await uploadDocument(...) ... }: the loop calls
\* uploadDocument for the first file not yet uploaded once no upload of the
\* batch is in flight
Advance(st) ==
  IF \E k \in 1..Len(st) : st[k] = "inflight" THEN st
  ELSE IF \E k \in 1..Len(st) : st[k] = "queued"
  THEN LET k == CHOOSE k \in 1..Len(st) :
                  /\ st[k] = "queued"
                  /\ \A j \in 1..(k - 1) : st[j] # "queued"
       IN [st EXCEPT ![k] = "inflight"]
  ELSE st

\* The number of files submitted so far
RECURSIVE FilesIn(_)
FilesIn(bs) == IF bs = << >> THEN 0 ELSE Len(Head(bs).items) + FilesIn(Tail(bs))

\* The file lists a picker selection or a drop can carry
RECURSIVE FileLists(_)
FileLists(n) ==
  IF n = 0 THEN {<< >>}
  ELSE FileLists(n - 1) \cup
       {Append(fs, f) : fs \in {x \in FileLists(n - 1) : Len(x) = n - 1}, f \in Names}

\* beginUpload(files), from onPickFiles or onDrop, at Date.now() = ms
beginUpload(files, ms) ==
  /\ mounted
  /\ ms >= nowMs
  /\ nowMs' = ms
  /\ IF isInsight(chatId) \/ Len(files) = 0
     THEN UNCHANGED <<uploads, batches>>
     ELSE LET b == Len(batches) + 1
              items == NewItems(files, b, chatId, ms)
          IN /\ uploads' = setUploads(uploads \o items)
             /\ batches' = Append(batches,
                  [chat |-> chatId, items |-> items,
                   st |-> Advance([k \in 1..Len(files) |-> "queued"])])
  /\ UNCHANGED <<removalTimersRef, timeouts, mounted>>
  /\ UNCHANGED <<sessionVars, timelineVars, shellVars>>

\* uploadDocument of file k of batch b reports progress pct
UploadProgress(b, k, pct) ==
  /\ batches[b].st[k] = "inflight"
  /\ uploads' = setUploads(MapTasks(uploads, batches[b].items[k].id, "progress", pct))
  /\ UNCHANGED <<removalTimersRef, timeouts, mounted, batches, nowMs>>
  /\ UNCHANGED <<sessionVars, timelineVars, shellVars>>

\* uploadDocument of file k of batch b resolved; the loop goes on
UploadResolve(b, k) ==
  /\ batches[b].st[k] = "inflight"
  /\ uploads' = setUploads(MapTasks(uploads, batches[b].items[k].id, "done", TRUE))
  /\ LET ts == scheduleRemoval(Timers, batches[b].items[k].id)
     IN removalTimersRef' = ts.map /\ timeouts' = ts.timeouts
  /\ batches' = [batches EXCEPT ![b].st = Advance([@ EXCEPT ![k] = "done"])]
  /\ UNCHANGED <<mounted, nowMs>>
  /\ UNCHANGED <<sessionVars, timelineVars, shellVars>>

\* uploadDocument of file k of batch b rejected; the loop goes on
UploadReject(b, k) ==
  /\ batches[b].st[k] = "inflight"
  /\ uploads' = setUploads(MapTasks(uploads, batches[b].items[k].id, "error", UPLOAD_ERROR))
  /\ LET ts == scheduleRemoval(Timers, batches[b].items[k].id)
     IN removalTimersRef' = ts.map /\ timeouts' = ts.timeouts
  /\ batches' = [batches EXCEPT ![b].st = Advance([@ EXCEPT ![k] = "error"])]
  /\ UNCHANGED <<mounted, nowMs>>
  /\ UNCHANGED <<sessionVars, timelineVars, shellVars>>

\* A pending timeout of task id fires: the callback of scheduleRemoval
RemovalTimerFires(id) ==
  /\ BagIn(id, timeouts)
  /\ uploads' = setUploads(FilterTasks(uploads, id))
  /\ removalTimersRef' = removalTimersRef \ {id}
  /\ timeouts' = timeouts (-) SetToBag({id})
  /\ UNCHANGED <<mounted, batches, nowMs>>
  /\ UNCHANGED <<sessionVars, timelineVars, shellVars>>

\* The session view unmounts: the cleanup clears the timers of the map, and
\* the state of the component is gone
Unmount ==
  /\ mounted
  /\ mounted' = FALSE
  /\ timeouts' = timeouts (-) SetToBag(removalTimersRef)
  /\ removalTimersRef' = {}
  /\ uploads' = << >>
  /\ UNCHANGED <<batches, nowMs>>
  /\ UNCHANGED <<sessionVars, timelineVars, shellVars>>

UploadInit ==
  /\ uploads = << >>
  /\ removalTimersRef = {}
  /\ timeouts = EmptyBag
  /\ mounted = TRUE
  /\ batches = << >>
  /\ nowMs = 0

UploadNext ==
  \/ \E n \in 0..(MaxFiles - FilesIn(batches)) :
       \E files \in {x \in FileLists(n) : Len(x) = n}, ms \in Millis :
         beginUpload(files, ms)
  \/ \E b \in 1..Len(batches) :
       \E k \in 1..Len(batches[b].items), pct \in Pcts : UploadProgress(b, k, pct)
  \/ \E b \in 1..Len(batches) :
       \E k \in 1..Len(batches[b].items) : UploadResolve(b, k)
  \/ \E b \in 1..Len(batches) :
       \E k \in 1..Len(batches[b].items) : UploadReject(b, k)
  \/ \E id \in BagToSet(timeouts) : RemovalTimerFires(id)
  \/ Unmount

----------------------------------------------------------------------------
(* Timeline (chat-window.jsx 222, 255-263, 354-369) *)

\* A Date is <<year, month (0-based), day of month, hour>> in local time;
\* NaN is the invalid Date.
NaN == "NaN"

\* The createdAt values of messages: absent, unparsable, and three timestamps
CreatedAts == {Null, "bad", "t1", "t2", "t3"}

\* new Date(createdAt) for a present createdAt
NewDate(c) ==
  IF c = "t1" THEN <<2024, 0, 31, 10>>
  ELSE IF c = "t2" THEN <<2024, 0, 31, 15>>
  ELSE IF c = "t3" THEN <<2024, 1, 1, 9>>
  ELSE NaN

\* The times of day at which the view renders
WallTimes == {<<2024, 1, 1, 23>>, <<2024, 1, 2, 0>>}

Before(a, b) ==
  \E k \in 1..4 : a[k] < b[k] /\ \A j \in 1..(k - 1) : a[j] = b[j]

\* let d = m.createdAt ? new Date(m.createdAt) : new Date();
\* if (isNaN(d.getTime())) d = new Date();
DateOf(m, w) ==
  LET d == IF m.createdAt # Null THEN NewDate(m.createdAt) ELSE w
  IN IF d = NaN THEN w ELSE d

\* A key of the year and the month only
MonthKey(d) == Digits(d[1]) \o <<"-">> \o Digits(d[2])

\* `${d.getFullYear()}-${d.getMonth()}-${d.getDate()}`
DayKey(d) == Digits(d[1]) \o <<"-">> \o Digits(d[2]) \o <<"-">> \o Digits(d[3])

\* headerLabel(d, now) of utils: relative for the day of `now` and the day
\* before it, the date otherwise
headerLabel(d, n) ==
  IF DayKey(d) = DayKey(n) THEN "Today"
  ELSE IF d[1] = n[1] /\ d[2] = n[2] /\ d[3] + 1 = n[3] THEN "Yesterday"
  ELSE DayKey(d)

\* A push that starts the items of the last section over
PushItemAlone(out, item) == [out EXCEPT ![Len(out)].items = <<item>>]

\* out[out.length - 1].items.push({ ...m, _d: d })
PushItem(out, item) == [out EXCEPT ![Len(out)].items = Append(@, item)]

\* messages.forEach((m) => { ... }) from message k on
RECURSIVE GroupFrom(_, _, _, _, _, _)
GroupFrom(ms, k, out, currentKey, n, w) ==
  IF k > Len(ms) THEN out
  ELSE LET m == ms[k]
           d == DateOf(m, w)
           key == DayKey(d)
           opened == IF key # currentKey
                     THEN Append(out, [header |-> headerLabel(d, n), items |-> << >>])
                     ELSE out
           item == [id |-> m.id, createdAt |-> m.createdAt, _d |-> d]
       IN GroupFrom(ms, k + 1, PushItem(opened, item), key, n, w)

\* The sections memo: if (!messages.length) return [];
Sections(ms, n, w) ==
  IF Len(ms) = 0 THEN << >> ELSE GroupFrom(ms, 1, << >>, Null, n, w)

\* messagesVersion changed: the store appended a message (setMessage, or
\* the reply of sendMessage) and the sections memo is computed again
AppendMessage(c) ==
  /\ Len(messages) < MaxLen
  /\ messages' = Append(messages, [id |-> Len(messages) + 1, createdAt |-> c])
  /\ sections' = Sections(messages', now, wall)
  /\ UNCHANGED <<now, wall>>
  /\ UNCHANGED <<sessionVars, uploadVars, shellVars>>

\* chat.id changed to a chat without messages
SelectEmptyChat ==
  /\ messages # << >>
  /\ messages' = << >>
  /\ sections' = Sections(messages', now, wall)
  /\ UNCHANGED <<now, wall>>
  /\ UNCHANGED <<sessionVars, uploadVars, shellVars>>

\* Time passes
ClockPasses(w) ==
  /\ Before(wall, w)
  /\ wall' = w
  /\ UNCHANGED <<messages, now, sections>>
  /\ UNCHANGED <<sessionVars, uploadVars, shellVars>>

\* setInterval(() => setNow(new Date()), 30000): the memo is computed again
NowTick ==
  /\ now # wall
  /\ now' = wall
  /\ sections' = Sections(messages, wall, wall)
  /\ UNCHANGED <<messages, wall>>
  /\ UNCHANGED <<sessionVars, uploadVars, shellVars>>

TimelineInit ==
  /\ messages = << >>
  /\ wall = <<2024, 1, 1, 23>>
  /\ now = wall
  /\ sections = << >>

TimelineNext ==
  \/ \E c \in CreatedAts : AppendMessage(c)
  \/ SelectEmptyChat
  \/ \E w \in WallTimes : ClockPasses(w)
  \/ NowTick

----------------------------------------------------------------------------
(* App shell (App.jsx 28-98, 140-145, 227-268, 296-312) *)

\* The ids a route can carry: a chat, an insight, an id that is both a chat
\* and an insight, and an id of neither
ChatIds == {"c1", "x"}
InsightIds == {"i1", "x"}
ThreadIds == ChatIds \cup InsightIds \cup {"u"}

\* null where a selection is expected
NullChat == [id |-> Null, chatType |-> Null]

\* return { ...c, chatType: "regular" } and
\* return { id: i.id, title: i.title, chatType: "insight", insightData: i }
Selection(id, type) == [id |-> id, chatType |-> type]

\* The memo selectedFromUrl for route parameter t, chats cs and insights is
selectedFromUrl(t, cs, is) ==
  IF t = Null THEN NullChat
  ELSE IF t \in cs THEN Selection(t, "regular")
  ELSE IF t \in is THEN Selection(t, "insight")
  ELSE NullChat

\* An effect that stores every selection, null included
RememberAny(ref, sel) == sel

\* useEffect: if (selectedFromUrl) lastNonNullRef.current = selectedFromUrl
Remember(ref, sel) == IF sel # NullChat THEN sel ELSE ref

\* const activeChat = selectedFromUrl ?? lastNonNullRef.current
ActiveChat(sel, ref) == IF sel # NullChat THEN sel ELSE ref

\* A render of AppShellInner with route parameter t, chats cs and insights
\* is, the ref holding ref when it starts, followed by its effect
Render(t, cs, is, ref) ==
  LET sel == selectedFromUrl(t, cs, is) IN
    /\ threadId' = t
    /\ chats' = cs
    /\ insights' = is
    /\ activeChat' = ActiveChat(sel, ref)
    /\ lastNonNullRef' = Remember(ref, sel)

\* What the latest render whose route resolved has selected
Resolved(t, cs, is, last) ==
  IF t \in cs THEN [id |-> t, chatType |-> "regular"]
  ELSE IF t \in is THEN [id |-> t, chatType |-> "insight"]
  ELSE last

\* navigateTo(id): navigate(`/${encodeURIComponent(id)}`) or navigate(`/home`)
navigateTo(id) ==
  /\ Render(id, chats, insights, lastNonNullRef)
  /\ lastResolved' = Resolved(id, chats, insights, lastResolved)

\* An item of the conversation list is opened: handleOpenChat(chatData)
handleOpenChat(id) ==
  /\ id \in chats \cup insights
  /\ navigateTo(id)
  /\ UNCHANGED <<sessionVars, uploadVars, timelineVars>>

\* The logo is clicked: lastNonNullRef.current = null; navigateTo(null)
LogoClick ==
  /\ Render(Null, chats, insights, NullChat)
  /\ lastResolved' = NullChat
  /\ UNCHANGED <<sessionVars, uploadVars, timelineVars>>

\* Back of the chat window (rendered when activeChat is not null):
\* lastNonNullRef.current = null; navigateTo(null)
onBack ==
  /\ activeChat # NullChat
  /\ Render(Null, chats, insights, NullChat)
  /\ lastResolved' = NullChat
  /\ UNCHANGED <<sessionVars, uploadVars, timelineVars>>

\* Browse insights of the empty state: navigateTo(latest.id) if there is a
\* latest insight, navigateTo(null) otherwise
onBrowseInsights ==
  /\ activeChat = NullChat
  /\ IF insights = {} THEN navigateTo(Null)
     ELSE \E i \in insights : navigateTo(i)
  /\ UNCHANGED <<sessionVars, uploadVars, timelineVars>>

\* The location changes without a handler of the shell: browser history
\* (back, forward), a link, or the redirect of "/" and "*" to /home
LocationChange(t) ==
  /\ t # threadId
  /\ navigateTo(t)
  /\ UNCHANGED <<sessionVars, uploadVars, timelineVars>>

\* The data context delivers other lists of chats and insights (boot,
\* createChat, a refresh) and the shell renders again
DataChange(cs, is) ==
  /\ <<cs, is>> # <<chats, insights>>
  /\ Render(threadId, cs, is, lastNonNullRef)
  /\ lastResolved' = Resolved(threadId, cs, is, lastResolved)
  /\ UNCHANGED <<sessionVars, uploadVars, timelineVars>>

\* The shell after its first render on /home, the data context still booting
ShellInit ==
  /\ threadId = Null
  /\ chats = {}
  /\ insights = {}
  /\ lastNonNullRef = NullChat
  /\ activeChat = NullChat
  /\ lastResolved = NullChat

ShellNext ==
  \/ \E id \in ThreadIds : handleOpenChat(id)
  \/ LogoClick
  \/ onBack
  \/ onBrowseInsights
  \/ \E t \in ThreadIds \cup {Null} : LocationChange(t)
  \/ \E cs \in SUBSET ChatIds, is \in SUBSET InsightIds : DataChange(cs, is)

----------------------------------------------------------------------------
(* Specifications *)

\* The shell and the session view after their first render
Init == SessionInit /\ UploadInit /\ TimelineInit /\ ShellInit

\* History loading and sending
Next == SessionNext

Spec == Init /\ [][Next]_vars

\* Uploads of the displayed chat
UploadSpec == Init /\ [][UploadNext]_vars

\* The sections memo of the rendered message list
TimelineSpec == Init /\ [][TimelineNext]_vars

\* The App shell: route, selection and active chat
ShellSpec == Init /\ [][ShellNext]_vars

----------------------------------------------------------------------------
(* Claims about sending *)

SendArgs == {NoArg} \cup {StringArg(t) : t \in Texts}

\* A step that calls send() with content taken from the input field
SendFromInputStep == PressEnter \/ ClickSend \/ triggerSend(NoArg)

\* A step that calls send(text) with a string: a suggestion chip, a follow-up
\* chip, triggerSend(text), or the automatic insight question
SendFromStringStep ==
  \/ \E label \in CHAT_SUGGESTIONS : PickSuggestion(label)
  \/ \E label \in Texts : PickFollowUp(label)
  \/ \E t \in Texts : triggerSend(StringArg(t))
  \/ \E l \in loads, hist \in Histories :
        LoadResolve(l, hist) /\ autoSends' # autoSends

\* A step that calls send() with empty or whitespace-only content
BlankSendStep ==
  \/ IsBlank(NoArg) /\ PressEnter
  \/ IsBlank(NoArg) /\ ClickSend
  \/ \E arg \in SendArgs : IsBlank(arg) /\ triggerSend(arg)
  \/ \E label \in CHAT_SUGGESTIONS :
        IsBlank(StringArg(label)) /\ PickSuggestion(label)
  \/ \E label \in Texts : IsBlank(StringArg(label)) /\ PickFollowUp(label)

\* C1: when a send that took its non-blank text T from the input field fails
\* (and the user has not typed since), inputValue equals T after the failure
\* and a send error is shown.
C1_FailedSendKeepsDraft ==
  [][\A s \in sends :
       (SendReject(s) /\ pendingDraft.sid = s.sid)
         => (inputValue' = pendingDraft.text /\ sendError' # Null)]_vars

\* C6: send() with empty or whitespace-only content is a no-op: setMessage
\* and sendMessage are not called, no message is appended, and isThinking,
\* sendError and inputValue are unchanged.  (Stated by contraposition: a step
\* that changes any of them is not a blank send.)
C6_BlankSendIsNoOp ==
  [][~(UNCHANGED <<setMessageCalls, sendCalls, sends, store, isThinking,
                   sendError, inputValue>>)
       => ~BlankSendStep]_vars

\* A blank send was called on a whitespace-only input field, and nothing was
\* sent
C6_Witness ==
  /\ blankSent /\ inputValue = Blank
  /\ sendCalls = 0 /\ setMessageCalls = 0 /\ sends = {}
  /\ ~isThinking /\ sendError = Null

\* C9: whenever a sendMessage request is outstanding, isThinking is true.
C9_ThinkingWhileOutstanding == sends # {} => isThinking

\* C10: a send whose content was supplied as a string leaves inputValue
\* unchanged: a step that changes inputValue is not such a send, it is the
\* user typing or a send that took its content from the input field.
C10_StringSendKeepsInput ==
  [][inputValue' # inputValue =>
       /\ ~SendFromStringStep
       /\ SendFromInputStep \/ \E t \in Texts : Type(t)]_vars

\* The only send so far is the automatic insight question (a string), it is
\* outstanding, and the input field holds text
C10_Witness ==
  /\ sendCalls = 1 /\ autoSends["i1"] = 1 /\ sends # {}
  /\ inputValue = <<" ", "a">>

----------------------------------------------------------------------------
(* Claims about the history-load effect *)

\* The displayed chat is the only chat this session view ever displayed
StayedDisplayed == \A c \in Chats \ {chatId} : loadCalls[c] = 0

\* C2: for a chat id not yet fetched, loadMessages is called exactly once,
\* however often the effect runs again for that id while the load is pending
\* or after it succeeded: the displayed chat has had its call, and a chat
\* none of whose loads failed has had at most one.
C2_HistoryLoadedOnce ==
  /\ loadCalls[chatId] >= 1
  /\ \A id \in Chats : id \notin loadFails => loadCalls[id] <= 1

\* The effect ran again for the displayed chat while its load is pending (the
\* pending load belongs to a cleaned-up run), and there was one call
C2_Witness ==
  \E l \in loads :
    /\ l.id = chatId /\ l.cancelled /\ l.awaiting = 0
    /\ loadCalls[chatId] = 1 /\ chatId \notin loadFails

\* C3: the automatic send of an insight's originating question happens at
\* most once per chat id.
C3_AutoAskAtMostOnce == \A id \in Chats : autoSends[id] <= 1

\* The insight's question was sent automatically, that send failed, the chat
\* was left for another one and is displayed again
C3_Witness ==
  /\ chatId = "i1" /\ autoSends["i1"] = 1
  /\ sendCalls = 1 /\ sends = {} /\ sendError = SEND_ERROR
  /\ loadCalls["c1"] = 1 /\ loads = {}

\* C4: for an insight chat that stays displayed and has a non-blank question,
\* once its history has loaded successfully and is empty (and no load of it
\* is pending any more), the question has been sent automatically.
C4_AutoAskAfterEmptyLoad ==
  [][\A l \in loads :
       (/\ LoadResolve(l, "none")
        /\ l.id = chatId /\ StayedDisplayed
        /\ isInsight(l.id) /\ AutoQuestion(l.id) # << >>
        /\ \A k \in loads' : k.id = l.id => k.awaiting # 0)
         => autoSends'[l.id] >= 1]_vars

\* A step that runs the history-load effect for the chat displayed after it
EffectRunStep == RerunEffect \/ \E id \in Chats : SwitchChat(id)

\* C11: when loadMessages fails for a chat id the id leaves the fetched-history
\* guard, and the next run of the effect for an unguarded id calls
\* loadMessages again; a successful load leaves the id guarded with no load of
\* it pending, only a failed load of an id removes it from the guard, and a
\* run of the effect for a guarded id calls nothing.
C11_RetryAfterFailedLoad ==
  [][/\ \A l \in loads \ loads' :
          /\ LoadReject(l) => l.id \notin fetchedHistoryRef'
          /\ (\E hist \in Histories : LoadResolve(l, hist)) =>
               /\ l.id \in fetchedHistoryRef'
               /\ \A k \in loads' : k.id = l.id => k.awaiting # 0
     /\ \A id \in fetchedHistoryRef \ fetchedHistoryRef' :
          \E l \in loads : l.id = id /\ LoadReject(l)
     /\ chatId' \notin fetchedHistoryRef =>
          (EffectRunStep => loadCalls'[chatId'] = loadCalls[chatId'] + 1)
     /\ loadCalls' # loadCalls =>
          ~(chatId' \in fetchedHistoryRef /\ EffectRunStep)]_vars

\* The load of the displayed chat failed, the effect ran again and called
\* loadMessages a second time, and that load succeeded
C11_Witness ==
  /\ chatId \in loadFails /\ loadCalls[chatId] = 2
  /\ chatId \in fetchedHistoryRef
  /\ \A l \in loads : l.id # chatId

\* C14: when the history fetch of a chat completes, with a result or an
\* error, after the view changed to another chat, it changes none of the
\* state of the session view (isLoadingHistory and loadError stay those of
\* the displayed chat's fetch) and sends nothing automatically.
C14_StaleLoadDiscarded ==
  [][\A l \in loads \ loads' :
       (/\ l.cancelled /\ l.id # chatId
        /\ LoadReject(l) \/ \E hist \in Histories : LoadResolve(l, hist))
         => UNCHANGED <<isLoadingHistory, loadError, inputValue, isThinking,
                        sendError, autoSends, sendCalls>>]_vars

\* C19: whenever isThinking is true, a send for the displayed chat is
\* outstanding: a send started in a chat displayed before does not show the
\* thinking indicator in the chat displayed now.
C19_ThinkingScopedToChat ==
  isThinking => \E s \in sends : s.chat = chatId

----------------------------------------------------------------------------
(* Claims about uploads *)

Batches == 1..Len(batches)

FilesOf(b) == 1..Len(batches[b].items)

\* The visible task of file k of batch b is marked done or failed
TaskTerminal(b, k) ==
  \E n \in 1..Len(uploads) :
    /\ uploads[n].file = <<b, k>>
    /\ (uploads[n].done \/ uploads[n].error # Null)

\* The task of file k of batch b was removed from the visible list
TaskRemoved(b, k) == \A n \in 1..Len(uploads) : uploads[n].file # <<b, k>>

\* The uploadDocument calls in flight
InFlight == {<<b, k>> \in Batches \X (1..MaxFiles) :
               k \in FilesOf(b) /\ batches[b].st[k] = "inflight"}

\* C7: in a batch, uploadDocument for a file starts only after the upload of
\* the file before it is done or failed, so the tasks of the batch become
\* terminal in submission order: a task is marked done or failed only when
\* every task before it in the batch is (or was, before its removal).
C7_BatchInSubmissionOrder ==
  \A b \in Batches : \A i \in FilesOf(b), j \in FilesOf(b) :
    i < j =>
      /\ batches[b].st[j] # "queued" => batches[b].st[i] \in Terminal
      /\ TaskTerminal(b, j) => (TaskTerminal(b, i) \/ TaskRemoved(b, i))

\* C8 as stated: at most one uploadDocument call is in flight at any time,
\* over all selections and drops.
C8_OneUploadInFlight == Cardinality(InFlight) <= 1

\* C8 as amended: at most one uploadDocument call of each batch is in flight
\* at any time.
C8_OneUploadInFlightPerBatch ==
  \A b \in Batches :
    Cardinality({k \in FilesOf(b) : batches[b].st[k] = "inflight"}) <= 1

\* A second selection was made while the first batch is uploading: each of
\* the two batches has an upload in flight and a file waiting
C8_Witness ==
  /\ Len(batches) = 2
  /\ \E k \in FilesOf(1) : batches[1].st[k] = "inflight"
  /\ \E k \in FilesOf(2) : batches[2].st[k] = "inflight"
  /\ \E k \in FilesOf(1) : batches[1].st[k] = "queued"

\* C12: when the upload of file k of a batch fails, the task of that file
\* gets its error set, every other visible task keeps its progress, done and
\* error fields, and the loop goes on to upload the file queued after it.
C12_UploadFailureIsolated ==
  [][\A b \in Batches : \A k \in FilesOf(b) :
       UploadReject(b, k) =>
         /\ \A n \in 1..Len(uploads) :
              IF uploads[n].file = <<b, k>>
              THEN uploads'[n].error = UPLOAD_ERROR
              ELSE uploads'[n] = uploads[n]
         /\ (k + 1) \in FilesOf(b) => batches'[b].st[k + 1] = "inflight"]_vars

\* The visible task n is marked done or failed
IsTerminal(n) == uploads[n].done \/ uploads[n].error # Null

\* C15: every task id has at most one pending removal timer, every visible
\* task that is done or failed has the timer of its id pending, a task leaves
\* the visible list only when the timer of its id fires, and a task that
\* left the list does not come back.
C15_OneRemovalTimerPerTask ==
  [][/\ \A id \in BagToSet(timeouts') : CopiesIn(id, timeouts') = 1
     /\ \A n \in 1..Len(uploads') :
          (uploads'[n].done \/ uploads'[n].error # Null)
            => BagIn(uploads'[n].id, timeouts')
     /\ \A n \in 1..Len(uploads) :
          (mounted' /\ \A m \in 1..Len(uploads') : uploads'[m].file # uploads[n].file)
            => RemovalTimerFires(uploads[n].id)
     /\ \A b \in Batches : \A k \in FilesOf(b) :
          TaskRemoved(b, k) => \A m \in 1..Len(uploads') : uploads'[m].file # <<b, k>>]_vars

\* Two uploads with the same task id are done, the second scheduleRemoval
\* found the timer of the first pending, and the timer has not fired
C15_Witness ==
  /\ Len(batches) = 1 /\ Len(batches[1].items) = 2
  /\ batches[1].items[1].id = batches[1].items[2].id
  /\ batches[1].st = <<"done", "done">>
  /\ Len(uploads) = 2 /\ IsTerminal(1) /\ IsTerminal(2)
  /\ CopiesIn(uploads[1].id, timeouts) = 1

\* C16: after the session view unmounted, no removal timer is pending (and
\* so no removal callback fires), also for uploads that were in flight at
\* the unmount and finish afterwards.
C16_NoTimerAfterUnmount == ~mounted => timeouts = EmptyBag

\* C18: a progress, completion or error update of the upload of file k of
\* batch b changes the task of that file only, and the ids of the visible
\* tasks are distinct.
C18_UpdateChangesOwnTaskOnly ==
  [][/\ \A b \in Batches : \A k \in FilesOf(b) :
          (\/ \E pct \in Pcts : UploadProgress(b, k, pct)
           \/ UploadResolve(b, k)
           \/ UploadReject(b, k))
            => \A n \in 1..Len(uploads) :
                 uploads[n].file # <<b, k>> => uploads'[n] = uploads[n]
     /\ \A n \in 1..Len(uploads'), m \in 1..Len(uploads') :
          n # m => uploads'[n].id # uploads'[m].id]_vars

----------------------------------------------------------------------------
(* Claims about the timeline *)

\* The items of the sections, in section order
RECURSIVE Concat(_)
Concat(ss) == IF ss = << >> THEN << >> ELSE Head(ss).items \o Concat(Tail(ss))

\* An item without the date the grouping attached to it
Plain(items) ==
  [k \in 1..Len(items) |-> [id |-> items[k].id, createdAt |-> items[k].createdAt]]

\* The places of the sections at which the message with this id appears
PlacesOf(id) ==
  {<<s, i>> \in (1..Len(sections)) \X (1..MaxLen) :
     i <= Len(sections[s].items) /\ sections[s].items[i].id = id}

\* C5: the sections partition the message list: every message appears in
\* exactly one section, and the items of the sections, concatenated in
\* section order, are the messages in their original order.
C5_SectionsPartitionMessages ==
  /\ Plain(Concat(sections)) = messages
  /\ \A k \in 1..Len(messages) : Cardinality(PlacesOf(messages[k].id)) = 1

\* Three messages were grouped into two sections, one of them of two messages
C5_Witness ==
  /\ Len(messages) = 3
  /\ Len(sections) = 2
  /\ \E s \in 1..2 : Len(sections[s].items) = 2

----------------------------------------------------------------------------
(* Claims about the App shell *)

\* C13: when the route's thread id resolves to no chat and no insight and an
\* earlier route resolved with no reset by Back or the logo since, the active
\* chat is the most recently resolved selection; when the id resolves, the
\* active chat is the resolved record, the chat if the id is a chat's.
C13_ActiveChatFallsBack ==
  /\ (threadId \in chats) => activeChat = [id |-> threadId, chatType |-> "regular"]
  /\ (threadId \in insights \ chats) =>
       activeChat = [id |-> threadId, chatType |-> "insight"]
  /\ (/\ threadId # Null
      /\ threadId \notin chats \cup insights
      /\ lastResolved # NullChat) => activeChat = lastResolved

\* The route carries an id of no chat and no insight after the id that is
\* both a chat and an insight was resolved, as a chat
C13_Witness ==
  /\ threadId = "u"
  /\ lastResolved = [id |-> "x", chatType |-> "regular"]
  /\ "x" \in chats \cap insights
  /\ activeChat = lastResolved

\* C20: whenever the route carries no thread id (/home), the active chat is
\* null.
C20_HomeShowsNoChat == threadId = Null => activeChat = NullChat

\* The local calendar day of a Date
Day(d) == <<d[1], d[2], d[3]>>

\* The number of places of a list of items at which the day changes
DayChanges(items) ==
  Cardinality({k \in 1..(Len(items) - 1) : Day(items[k]._d) # Day(items[k + 1]._d)})

\* C17: the items of a section share one day, two adjacent sections have
\* different days, no section is empty, and the number of sections is the
\* number of day changes along the list plus one.
C17_SectionsAreMaximalDayRuns ==
  /\ \A s \in 1..Len(sections) :
       /\ sections[s].items # << >>
       /\ \A i \in 1..Len(sections[s].items) :
            Day(sections[s].items[i]._d) = Day(sections[s].items[1]._d)
  /\ \A s \in 1..(Len(sections) - 1) :
       Day(sections[s].items[Len(sections[s].items)]._d)
         # Day(sections[s + 1].items[1]._d)
  /\ messages # << >> => Len(sections) = DayChanges(Concat(sections)) + 1

\* Two messages of 31 January followed by one of 1 February give two
\* sections, of two messages and of one
C17_Witness ==
  /\ Len(messages) = 3
  /\ messages[1].createdAt = "t1" /\ messages[2].createdAt = "t2"
  /\ messages[3].createdAt = "t3"
  /\ Len(sections) = 2
  /\ Len(sections[1].items) = 2 /\ Len(sections[2].items) = 1

=============================================================================
